---- MODULE Spec2Model ----
(***************************************************************************)
(* Model of the resilient HTTP client of vaults-mcp (src/client.py):       *)
(* VaultsClient._make_request with its tenacity retry decorator, the       *)
(* response classification of _handle_response_error and the exception     *)
(* hierarchy of src/exceptions.py.                                         *)
(*                                                                         *)
(* The backend is a scripted server: for each request() call it holds the  *)
(* answers it will give to the call's successive HTTP attempts (a prefix   *)
(* of answers, then one answer repeated for every later attempt).          *)
(***************************************************************************)
EXTENDS Integers, Sequences, FiniteSets, TLC

VARIABLES
    pc,         \* pc[c]: "idle", "inflight" (awaiting client.request), "sleeping" (backoff), "done"
    req,        \* req[c]: the arguments of the request() call
    backend,    \* backend[c]: the answers the backend gives to the attempts of call c
    attempts,   \* attempts[c]: number of HTTP attempts issued over the transport
    outcomes,   \* outcomes[c]: per finished attempt, what _make_request's body ended in
    delays,     \* delays[c]: the delays slept between the attempts
    result,     \* result[c]: what request() delivered to its caller
    function_key, \* the client's function-level key (Config.function_key)
    transport,  \* the client's httpx.AsyncClient: "open" or "closed"
    sent,       \* sent[c]: the requests handed to the transport, one per HTTP attempt
    scope,      \* the task that uses the client through "async with"
    tool,       \* tool[c]: the handle_call_tool invocation that owns call c
    settings,   \* the values Config() is constructed from (environment, keyword arguments)
    config,     \* the Config instance, NoConfig while there is none
    server,     \* the server process: "import", "failed", "running", "stopped"
    closes,     \* number of times close() has been executed on the client
    listing     \* the tool names handle_list_tools returned last, <<>> before

callVars == <<pc, req, backend, attempts, outcomes, delays, result, sent>>
hostVars == <<settings, config, server, closes, listing>>
vars == <<pc, req, backend, attempts, outcomes, delays, result,
          function_key, transport, sent, scope, tool, settings, config, server, closes, listing>>

----------------------------------------------------------------------------
(* Bounds of the model *)

\* request() calls that exist on the one shared client
NumCalls == 2
\* Retry-After headers carry the integers 0..MaxRetryAfter (or no integer)
MaxRetryAfter == 1

Calls == 1..NumCalls

----------------------------------------------------------------------------
(* Optional values *)

None == <<>>
Some(x) == <<x>>

Min(a, b) == IF a < b THEN a ELSE b
Max(a, b) == IF a > b THEN a ELSE b

RECURSIVE Pow2(_)
Pow2(n) == IF n <= 0 THEN 1 ELSE 2 * Pow2(n - 1)

----------------------------------------------------------------------------
(* Configuration (src/config.py) *)

\* Config.timeout default
ConfigTimeout == 30

----------------------------------------------------------------------------
(* Exceptions (src/exceptions.py) and the foreign exceptions that can be   *)
(* raised inside _make_request                                             *)

Exc(cls, message, status_code, retry_after, details) ==
    [cls |-> cls, message |-> message, status_code |-> status_code,
     retry_after |-> retry_after, details |-> details]

NoExc == Exc("", "", None, None, None)

AuthenticationError(message, details) == Exc("AuthenticationError", message, None, None, details)
APIError(message, status_code, details) == Exc("APIError", message, status_code, None, details)
RateLimitError(message, retry_after, details) == Exc("RateLimitError", message, None, retry_after, details)
ServerError(message, details) == Exc("ServerError", message, None, None, details)
TimeoutError(message) == Exc("TimeoutError", message, None, None, None)
NetworkError(message) == Exc("NetworkError", message, None, None, None)

\* exceptions that are not part of the VaultsException hierarchy
ForeignError(cls, message) == Exc(cls, message, None, None, None)

\* the six classified kinds of the client
ClassifiedKinds ==
    {"AuthenticationError", "RateLimitError", "APIError", "ServerError", "TimeoutError", "NetworkError"}

----------------------------------------------------------------------------
(* What the transport hands back for one attempt *)

Event(type, status, ctype, body, retry_after) ==
    [type |-> type, status |-> status, ctype |-> ctype, body |-> body, retry_after |-> retry_after]

TransportTimeout == Event("timeout", 0, "", "", None)       \* httpx.TimeoutException
TransportNetwork == Event("network", 0, "", "", None)       \* httpx.NetworkError
TransportOther   == Event("other", 0, "", "", None)         \* any other httpx exception
\* the AsyncClient was closed before the request: it raises RuntimeError and sends nothing
TransportClosed  == Event("closed", 0, "", "", None)

Statuses == {200, 204, 304, 400, 401, 404, 429, 499, 500, 503, 599}

JsonType == "application/json"
HtmlType == "Text/HTML; charset=utf-8"
ContentTypes == {JsonType, HtmlType}

OkBody    == "{\"ok\":true}"
ErrorBody == "{\"error\":\"boom\",\"details\":\"d\"}"
ArrayBody == "[1]"
HtmlBody  == "<html>oops</html>"
Bodies == {"", OkBody, ErrorBody, ArrayBody, HtmlBody}

HttpDate == "Wed, 21 Oct 2015 07:28:00 GMT"
RetryAfterHeaders ==
    {None, Some(HttpDate)} \cup {Some(ToString(n)) : n \in 0..MaxRetryAfter}

Responses ==
    {Event("response", s, ct, b, ra) :
        s \in Statuses, ct \in ContentTypes, b \in Bodies, ra \in RetryAfterHeaders}

Events == Responses \cup {TransportTimeout, TransportNetwork, TransportOther}

----------------------------------------------------------------------------
(* Text and JSON helpers, computed as Python and httpx compute them *)

\* str.lower() on the header values of the model
Lower(s) == IF s = HtmlType THEN "text/html; charset=utf-8" ELSE s

\* "text/html" in s
ContainsTextHtml(s) == s \in {"text/html", "text/html; charset=utf-8"}

JsonValue(type, members) == [type |-> type, members |-> members]

\* the empty mapping {}
EmptyMapping == JsonValue("object", {})

NoValue == JsonValue("", {})

\* response.json(): the parsed value, or the text of the decode error
ParseJson(text) ==
    CASE text = OkBody    -> [ok |-> TRUE, value |-> JsonValue("object", {<<"ok", "true">>}), err |-> ""]
      [] text = ErrorBody -> [ok |-> TRUE,
                              value |-> JsonValue("object", {<<"error", "boom">>, <<"details", "d">>}),
                              err |-> ""]
      [] text = ArrayBody -> [ok |-> TRUE, value |-> JsonValue("array", {<<"0", "1">>}), err |-> ""]
      [] OTHER            -> [ok |-> FALSE, value |-> NoValue,
                              err |-> "Expecting value: line 1 column 1 (char 0)"]

HasKey(json, key) == \E m \in json.members : m[1] = key
Lookup(json, key) == (CHOOSE m \in json.members : m[1] = key)[2]

\* int(text): the integer a decimal text denotes, if it denotes one
IsIntText(text) == \E n \in 0..MaxRetryAfter : ToString(n) = text
IntOf(text) == CHOOSE n \in 0..MaxRetryAfter : ToString(n) = text

\* Response.is_success
IsSuccess(response) == 200 <= response.status /\ response.status <= 299

----------------------------------------------------------------------------
(* VaultsClient._handle_response_error: the exception it raises *)

\* error_message and error_details
ErrorText(response) ==
    LET parsed == ParseJson(response.body)
        http   == "HTTP " \o ToString(response.status)
    IN  IF parsed.ok /\ parsed.value.type = "object"
        THEN [message |-> IF HasKey(parsed.value, "error")
                          THEN Lookup(parsed.value, "error") ELSE http,
              details |-> IF HasKey(parsed.value, "details")
                          THEN Some(Lookup(parsed.value, "details")) ELSE None]
        ELSE IF ContainsTextHtml(Lower(response.ctype))
        THEN [message |-> "Received HTML error page instead of JSON (" \o http \o ")",
              details |-> Some("The server returned an HTML error page, likely due to an unhandled exception")]
        ELSE [message |-> http \o ": " \o response.body \o "...", details |-> None]

HandleResponseError(response) ==
    LET e  == ErrorText(response)
        s  == response.status
        ra == response.retry_after
    IN  IF s = 401 THEN AuthenticationError(e.message, e.details)
        ELSE IF s = 429
        THEN IF ra = None \/ ra[1] = ""
             THEN RateLimitError(e.message, None, e.details)
             ELSE IF IsIntText(ra[1])
             THEN RateLimitError(e.message, Some(IntOf(ra[1])), e.details)
             ELSE ForeignError("ValueError",
                               "invalid literal for int() with base 10: '" \o ra[1] \o "'")
        ELSE IF 400 <= s /\ s < 500 THEN APIError(e.message, Some(s), e.details)
        ELSE IF 500 <= s /\ s < 600 THEN ServerError(e.message, e.details)
        ELSE APIError(e.message, Some(s), e.details)

----------------------------------------------------------------------------
(* VaultsClient._make_request, one attempt *)

Return(value) == [tag |-> "return", value |-> value, exc |-> NoExc]
Raise(exc)    == [tag |-> "raise", value |-> NoValue, exc |-> exc]
NoOutcome     == [tag |-> "none", value |-> NoValue, exc |-> NoExc]

\* the try body with the HTML check moved before the empty-body check
TryBodyHtmlFirst(event) ==
    CASE event.type = "timeout" -> Raise(ForeignError("httpx.TimeoutException", "timed out"))
      [] event.type = "network" -> Raise(ForeignError("httpx.NetworkError", "connection failed"))
      [] event.type = "other"   -> Raise(ForeignError("httpx.ProtocolError", "protocol error"))
      [] event.type = "closed"  ->
            Raise(ForeignError("RuntimeError", "Cannot send a request, as the client has been closed."))
      [] OTHER ->
            IF ~IsSuccess(event) THEN Raise(HandleResponseError(event))
            ELSE IF ContainsTextHtml(Lower(event.ctype))
            THEN Raise(ServerError(
                    "Received HTML response instead of JSON (HTTP " \o ToString(event.status) \o ")",
                    Some("The server returned an HTML error page, likely due to an unhandled exception")))
            ELSE IF event.body = "" THEN Return(EmptyMapping)
            ELSE LET parsed == ParseJson(event.body)
                 IN  IF parsed.ok THEN Return(parsed.value)
                     ELSE Raise(APIError(
                            "Failed to parse JSON response (HTTP " \o ToString(event.status)
                                \o "): " \o parsed.err,
                            None, None))

\* the body of the try statement
TryBody(event) ==
    CASE event.type = "timeout" -> Raise(ForeignError("httpx.TimeoutException", "timed out"))
      [] event.type = "network" -> Raise(ForeignError("httpx.NetworkError", "connection failed"))
      [] event.type = "other"   -> Raise(ForeignError("httpx.ProtocolError", "protocol error"))
      [] event.type = "closed"  ->
            Raise(ForeignError("RuntimeError", "Cannot send a request, as the client has been closed."))
      [] OTHER ->
            IF ~IsSuccess(event) THEN Raise(HandleResponseError(event))
            ELSE IF event.body = "" THEN Return(EmptyMapping)
            ELSE IF ContainsTextHtml(Lower(event.ctype))
            THEN Raise(ServerError(
                    "Received HTML response instead of JSON (HTTP " \o ToString(event.status) \o ")",
                    Some("The server returned an HTML error page, likely due to an unhandled exception")))
            ELSE LET parsed == ParseJson(event.body)
                 IN  IF parsed.ok THEN Return(parsed.value)
                     ELSE Raise(APIError(
                            "Failed to parse JSON response (HTTP " \o ToString(event.status)
                                \o "): " \o parsed.err,
                            None, None))

\* the except clauses with the two transport clauses missing
ExceptClausesGenericOnly(exc) ==
    APIError("Unexpected error: " \o exc.message, None, None)

\* the except clauses of the try statement: what leaves the attempt when
\* exc was raised in the body. Every exception raised in the body is
\* matched against them, those of the VaultsException hierarchy included.
ExceptClauses(exc) ==
    CASE exc.cls = "httpx.TimeoutException" ->
            TimeoutError("Request timed out after " \o ToString(ConfigTimeout) \o "s")
      [] exc.cls = "httpx.NetworkError" ->
            NetworkError("Network error: " \o exc.message)
      [] OTHER ->
            APIError("Unexpected error: " \o exc.message, None, None)

MakeRequest(event) ==
    LET o == TryBody(event)
    IN  IF o.tag = "raise" THEN Raise(ExceptClauses(o.exc)) ELSE o

----------------------------------------------------------------------------
(* The tenacity decorator of _make_request *)

\* stop_after_attempt(5)
MaxAttempts == 5

\* the stop condition one attempt late
StopAfterAttemptLate(attempt_number) == attempt_number > MaxAttempts

\* a stop condition taken from the configured retry budget
StopAfterAttemptConfigured(attempt_number) == attempt_number >= config.max_retries

StopAfterAttempt(attempt_number) == attempt_number >= MaxAttempts

\* the retry condition widened to every VaultsException
RetryIfAnyVaultsException(exc) == exc.cls \in ClassifiedKinds

\* retry_if_exception_type((NetworkError, ServerError, TimeoutError))
RetryIf(exc) == exc.cls \in {"NetworkError", "ServerError", "TimeoutError"}

\* wait_exponential(multiplier=1, min=1, max=10)
WaitMultiplier == 1
WaitMin == 1
WaitMax == 10

\* the backoff with the exponent one too high
WaitExponentialFromTwo(attempt_number) ==
    Max(Max(0, WaitMin), Min(Pow2(attempt_number) * WaitMultiplier, WaitMax))

WaitExponential(attempt_number) ==
    Max(Max(0, WaitMin), Min(Pow2(attempt_number - 1) * WaitMultiplier, WaitMax))

\* the error tenacity raises when the attempts are used up (reraise is not set)
RetryError(last) ==
    ForeignError("tenacity.RetryError",
                 "RetryError[<Future state=finished raised " \o last.cls \o ">]")

\* what the retrying loop does with the outcome of attempt number n
AfterAttempt(o, n) ==
    IF o.tag = "return" THEN [next |-> "done", result |-> o]
    ELSE IF ~RetryIf(o.exc) THEN [next |-> "done", result |-> o]
    ELSE IF StopAfterAttempt(n) THEN [next |-> "done", result |-> Raise(RetryError(o.exc))]
    ELSE [next |-> "sleeping", result |-> NoOutcome]

----------------------------------------------------------------------------
(* The scripted backend *)

PrefixEvents ==
    {TransportTimeout, TransportNetwork, Event("response", 503, JsonType, ErrorBody, None)}

Prefixes == UNION {[1..n -> PrefixEvents] : n \in 0..(MaxAttempts - 1)}

Behaviours == [prefix : Prefixes, tail : Events]

\* the answer to attempt number i
Answer(b, i) == IF i <= Len(b.prefix) THEN b.prefix[i] ELSE b.tail

----------------------------------------------------------------------------
(* Requests *)

Methods == {"GET", "POST", "PUT", "DELETE"}

MakeRequestArgs(method, path, params, json_data, requires_auth) ==
    [method |-> method, path |-> path, params |-> params,
     json_data |-> json_data, requires_auth |-> requires_auth]

NoReq == MakeRequestArgs("", "", None, None, FALSE)

\* the public wrappers of _make_request
Get(path, params, requires_auth) == MakeRequestArgs("GET", path, params, None, requires_auth)
Post(path, json_data, params, requires_auth) ==
    MakeRequestArgs("POST", path, params, json_data, requires_auth)
Put(path, json_data, params, requires_auth) ==
    MakeRequestArgs("PUT", path, params, json_data, requires_auth)
Delete(path, params, requires_auth) == MakeRequestArgs("DELETE", path, params, None, requires_auth)

HealthPath == "/api/health"

\* the calls of the retry properties: no query, no body, no authentication
PlainRequests ==
    {Get(HealthPath, None, FALSE), Post(HealthPath, None, None, FALSE),
     Put(HealthPath, None, None, FALSE), Delete(HealthPath, None, FALSE)}

\* VaultsClient._get_default_headers, set on the AsyncClient
DefaultHeaders ==
    {<<"Content-Type", "application/json">>, <<"User-Agent", "Vaults-MCP-Server/1.0.0">>,
     <<"Accept", "application/json">>}

\* Python truth value of an optional string
Truthy(opt) == opt # None /\ opt[1] # ""

\* VaultsClient._get_auth_headers
GetAuthHeaders(key) == IF Truthy(key) THEN {<<"x-functions-key", key[1]>>} ELSE {}

\* the outbound request with the key attached whether or not the route asks for it
OutboundAlwaysAuth(r, key) ==
    [method |-> r.method, url |-> r.path, params |-> r.params, json |-> r.json_data,
     headers |-> DefaultHeaders \cup GetAuthHeaders(key)]

\* the outbound request with the body left out
OutboundNoJson(r, key) ==
    [method |-> r.method, url |-> r.path, params |-> r.params, json |-> None,
     headers |-> DefaultHeaders \cup (IF r.requires_auth THEN GetAuthHeaders(key) ELSE {})]

\* the request _make_request hands to self.client.request
Outbound(r, key) ==
    [method |-> r.method, url |-> r.path, params |-> r.params, json |-> r.json_data,
     headers |-> DefaultHeaders \cup (IF r.requires_auth THEN GetAuthHeaders(key) ELSE {})]

\* a client that sends whatever its state
TransportAcceptsAlways(t) == TRUE

\* AsyncClient.request sends only while the client is not closed
TransportAccepts(t) == t = "open"

\* VaultsClient.close: await self.client.aclose()
CloseTransport(t) == "closed"

\* __aexit__ that releases the transport only when the block ended normally
AExitOnlyOnSuccess(exc_type, t) == IF exc_type = None THEN CloseTransport(t) ELSE t

\* VaultsClient.__aexit__
AExit(exc_type, t) == CloseTransport(t)

----------------------------------------------------------------------------
(* Tool invocations and the scoped user of the client, idle until used *)

\* what handle_call_tool hands back: [TextContent(type="text", text=...)], or an exception
ToolText(text) == [tag |-> "text", text |-> text, exc |-> NoExc]
ToolRaise(exc) == [tag |-> "raise", text |-> "", exc |-> exc]
ToolNone       == [tag |-> "none", text |-> "", exc |-> NoExc]

\* failure: the exception an except clause of the handler or of handle_call_tool caught
\* calls: the calls into the client (get / post / put / delete entered)
\* branch: the position of the if / elif branch taken, 0 for the else branch
NoTool == [pc |-> "idle", name |-> "", args |-> {}, prefix |-> "",
           output |-> ToolNone, failure |-> NoExc, calls |-> 0, branch |-> 0]

\* the argument bag: arguments[key], key in arguments, arguments.get(key, default)
HasArg(args, key) == \E a \in args : a[1] = key
Arg(args, key) == (CHOOSE a \in args : a[1] = key)[2]
ArgOr(args, key, default) == IF HasArg(args, key) THEN Arg(args, key) ELSE default

KeyError(key) == ForeignError("KeyError", "'" \o key \o "'")

\* what a handler does before its first await
PlanCall(request, prefix) == [kind |-> "call", request |-> request, prefix |-> prefix,
                              exc |-> NoExc, text |-> ""]
\* an exception raised inside the try statement of the handler
PlanCaught(exc, prefix)   == [kind |-> "caught", request |-> NoReq, prefix |-> prefix,
                              exc |-> exc, text |-> ""]
PlanText(text)            == [kind |-> "text", request |-> NoReq, prefix |-> "",
                              exc |-> NoExc, text |-> text]
\* an exception raised in handle_call_tool itself
PlanRaise(exc)            == [kind |-> "raise", request |-> NoReq, prefix |-> "",
                              exc |-> exc, text |-> ""]

\* the handlers of src/tools, one of each shape
HealthCheck == PlanCall(Get(HealthPath, None, FALSE), "Health check failed: ")

\* get_queue_metrics asking for the default queue whatever the caller names
GetQueueMetricsDefaultOnly(args) ==
    PlanCall(Get("/api/admin/servicebus/metrics", Some({<<"queue", "invite-queue">>}), TRUE),
             "Queue metrics failed: ")

GetQueueMetrics(args) ==
    PlanCall(Get("/api/admin/servicebus/metrics",
                 Some({<<"queue", ArgOr(args, "queue", "invite-queue")>>}), TRUE),
             "Queue metrics failed: ")

GetAuditPolicies(args) ==
    IF ~HasArg(args, "tenant_id")
    THEN PlanCaught(KeyError("tenant_id"), "Get audit policies failed: ")
    ELSE PlanCall(Get("/api/policies", Some({<<"tenantId", Arg(args, "tenant_id")>>}), FALSE),
                  "Get audit policies failed: ")

CopilotRetrieveContent(args) ==
    IF ~HasArg(args, "query")
    THEN PlanCaught(KeyError("query"), "Copilot retrieve content failed: ")
    ELSE PlanCall(Post("/api/vaults/retrieve",
                       Some(JsonValue("object", {<<"query", Arg(args, "query")>>,
                                                 <<"filters", ArgOr(args, "filters", "{}")>>})),
                       None, FALSE),
                  "Copilot retrieve content failed: ")

\* client.post(path, json=payload): post has no parameter named json
SubscribePurviewAuditLogs(webhook_url, tenant_id) ==
    PlanCaught(ForeignError("TypeError",
                            "VaultsClient.post() got an unexpected keyword argument 'json'"),
               "Error subscribing to Purview audit logs: ")

GetDlpPolicies(tenant_id) ==
    PlanCall(Get("/api/governance/dlp/policies", Some({<<"tenantId", tenant_id>>}), FALSE),
             "Error retrieving DLP policies: ")

StripeWebhook == PlanText("**Stripe Webhook Information**")

\* the name of every Tool of the TOOLS list, in its order
TOOLS ==
    <<"health_check", "get_service_bus_health", "get_queue_metrics", "health_check_live",
      "health_check_ready", "health_check_simple", "health_check_config",
      "health_check_service", "get_admin_stats", "get_audit_policies", "list_tenant_users",
      "update_audit_policies", "delete_audit_policy", "get_user_invitation_status",
      "get_copilot_root", "get_copilot_users", "get_interaction_history",
      "copilot_retrieve_content", "get_copilot_usage_summary", "get_copilot_user_count",
      "get_security_alerts", "get_high_risk_users", "get_policy_violations",
      "get_conversation", "search_conversations", "process_ingestion", "get_usage_metrics",
      "get_tenant_overview", "list_exports", "get_billing_status", "create_stripe_checkout",
      "create_stripe_payment_link", "get_seat_status", "stripe_webhook",
      "validate_azure_ad_permissions", "test_storage_connection", "complete_onboarding",
      "send_onboarding_email", "invite_user", "resend_invitation", "get_purview_audit_logs",
      "subscribe_purview_audit_logs", "get_dlp_policies", "assess_dlp_violation_risk",
      "validate_ai_permissions", "validate_ai_permissions_batch",
      "get_user_permission_summary", "classify_content", "classify_content_batch",
      "get_content_classification_summary", "apply_sensitivity_labels">>

\* a catalog that still advertises a tool whose branch is gone
handle_list_tools_stale == Append(TOOLS, "get_legacy_report")

\* handle_list_tools: return TOOLS
handle_list_tools == TOOLS

\* the names the if / elif chain of handle_call_tool compares with, in its order
DispatchBranches ==
    <<"health_check", "get_service_bus_health", "get_queue_metrics", "health_check_live",
      "health_check_ready", "health_check_simple", "health_check_config",
      "health_check_service", "get_admin_stats", "get_audit_policies", "list_tenant_users",
      "update_audit_policies", "delete_audit_policy", "get_user_invitation_status",
      "get_copilot_root", "get_copilot_users", "get_interaction_history",
      "copilot_retrieve_content", "get_copilot_usage_summary", "get_copilot_user_count",
      "get_security_alerts", "get_high_risk_users", "get_policy_violations",
      "get_conversation", "search_conversations", "process_ingestion", "get_usage_metrics",
      "get_tenant_overview", "list_exports", "get_billing_status", "create_stripe_checkout",
      "create_stripe_payment_link", "get_seat_status", "stripe_webhook",
      "validate_azure_ad_permissions", "test_storage_connection", "complete_onboarding",
      "send_onboarding_email", "invite_user", "resend_invitation", "get_purview_audit_logs",
      "subscribe_purview_audit_logs", "get_dlp_policies", "assess_dlp_violation_risk",
      "validate_ai_permissions", "validate_ai_permissions_batch",
      "get_user_permission_summary", "classify_content", "classify_content_batch",
      "get_content_classification_summary", "apply_sensitivity_labels">>

\* the first branch whose comparison succeeds, 0 when none does
BranchOf(name) ==
    IF \E i \in 1..Len(DispatchBranches) : DispatchBranches[i] = name
    THEN CHOOSE i \in 1..Len(DispatchBranches) :
            /\ DispatchBranches[i] = name
            /\ \A j \in 1..(i - 1) : DispatchBranches[j] # name
    ELSE 0

\* the handlers modelled
KnownTools ==
    {"health_check", "get_queue_metrics", "get_audit_policies", "copilot_retrieve_content",
     "subscribe_purview_audit_logs", "get_dlp_policies", "stripe_webhook"}

\* the body of the branch taken, for the handlers modelled
Branch(name, args) ==
    CASE name = "health_check" -> HealthCheck
      [] name = "get_queue_metrics" -> GetQueueMetrics(args)
      [] name = "get_audit_policies" -> GetAuditPolicies(args)
      [] name = "copilot_retrieve_content" -> CopilotRetrieveContent(args)
      [] name = "subscribe_purview_audit_logs" ->
            IF ~HasArg(args, "webhook_url") THEN PlanRaise(KeyError("webhook_url"))
            ELSE SubscribePurviewAuditLogs(Arg(args, "webhook_url"),
                                           ArgOr(args, "tenant_id", "default-tenant"))
      [] name = "get_dlp_policies" -> GetDlpPolicies(ArgOr(args, "tenant_id", "default-tenant"))
      [] name = "stripe_webhook" -> StripeWebhook

\* the if / elif chain with unknown names handed to health_check
DispatchUnknownToHealth(name, args) ==
    IF BranchOf(name) = 0 THEN HealthCheck ELSE Branch(name, args)

\* the if / elif chain of handle_call_tool and its else branch
Dispatch(name, args) ==
    IF BranchOf(name) = 0
    THEN PlanRaise(ForeignError("ValueError", "Unknown tool: " \o name))
    ELSE Branch(name, args)

\* the except clause of a handler
HandlerExcept(prefix, exc) == ToolText(prefix \o exc.message)

\* the except clause of handle_call_tool with the exception raised again
HandleCallToolExceptReraise(exc) == ToolRaise(exc)

\* the except clause of handle_call_tool
HandleCallToolExcept(exc) == ToolText("Error: " \o exc.message)

\* a handler formats the value the client returned
FormatResult(name, value) ==
    IF value.type = "object"
    THEN PlanText("formatted result of " \o name)
    ELSE PlanCaught(ForeignError("AttributeError", "'list' object has no attribute 'get'"), "")

\* the output of an invocation that ends without awaiting the client
Finish(plan) ==
    CASE plan.kind = "text"   -> ToolText(plan.text)
      [] plan.kind = "caught" -> HandlerExcept(plan.prefix, plan.exc)
      [] OTHER                -> HandleCallToolExcept(plan.exc)

NoScope == [pc |-> "outside", exc |-> None]

TestKey == "test-key"

----------------------------------------------------------------------------
(* Config: strings are sequences of characters, validators as in config.py *)

LowerLetters == <<"a","b","c","d","e","f","g","h","i","j","k","l","m",
                  "n","o","p","q","r","s","t","u","v","w","x","y","z">>
UpperLetters == <<"A","B","C","D","E","F","G","H","I","J","K","L","M",
                  "N","O","P","Q","R","S","T","U","V","W","X","Y","Z">>

\* str.upper(), character by character
UpperChar(ch) ==
    IF \E i \in 1..Len(LowerLetters) : LowerLetters[i] = ch
    THEN UpperLetters[CHOOSE i \in 1..Len(LowerLetters) : LowerLetters[i] = ch]
    ELSE ch
Upper(s) == [i \in 1..Len(s) |-> UpperChar(s[i])]

\* str.startswith(prefix)
StartsWith(s, prefix) == Len(s) >= Len(prefix) /\ SubSeq(s, 1, Len(prefix)) = prefix

\* str.rstrip(ch)
RECURSIVE RStrip(_, _)
RStrip(s, ch) ==
    IF s # <<>> /\ s[Len(s)] = ch THEN RStrip(SubSeq(s, 1, Len(s) - 1), ch) ELSE s

HttpScheme  == <<"h","t","t","p",":","/","/">>
HttpsScheme == <<"h","t","t","p","s",":","/","/">>

valid_levels ==
    {<<"D","E","B","U","G">>, <<"I","N","F","O">>, <<"W","A","R","N","I","N","G">>,
     <<"E","R","R","O","R">>, <<"C","R","I","T","I","C","A","L">>}

\* what a validator hands back: the value to store, or the ValueError it raised
Valid(v) == [ok |-> TRUE, value |-> v]
Invalid == [ok |-> FALSE, value |-> <<>>]

validate_base_url(v) ==
    IF ~(StartsWith(v, HttpScheme) \/ StartsWith(v, HttpsScheme)) THEN Invalid
    ELSE Valid(RStrip(v, "/"))

\* the timeout validator with zero let through
validate_timeout_allows_zero(v) == IF v < 0 THEN Invalid ELSE Valid(v)

validate_timeout(v) == IF v <= 0 THEN Invalid ELSE Valid(v)

validate_max_retries(v) == IF v < 0 THEN Invalid ELSE Valid(v)

validate_retry_delay(v) == IF v < 0 THEN Invalid ELSE Valid(v)

validate_log_level(v) == IF Upper(v) \notin valid_levels THEN Invalid ELSE Valid(Upper(v))

NoConfig == [base_url |-> <<>>, timeout |-> 0, max_retries |-> 0, retry_delay |-> 0,
             log_level |-> <<>>]

\* Config(**s): every validator runs; one failure makes the construction raise
ConfigInit(s) ==
    LET u == validate_base_url(s.base_url)
        t == validate_timeout(s.timeout)
        m == validate_max_retries(s.max_retries)
        d == validate_retry_delay(s.retry_delay)
        l == validate_log_level(s.log_level)
    IN  IF u.ok /\ t.ok /\ m.ok /\ d.ok /\ l.ok
        THEN [ok |-> TRUE,
              value |-> [base_url |-> u.value, timeout |-> t.value, max_retries |-> m.value,
                         retry_delay |-> d.value, log_level |-> l.value]]
        ELSE [ok |-> FALSE, value |-> NoConfig]

\* the config fixture of the tests; retry_delay is left at its default
FixtureSettings ==
    [base_url |-> <<"h","t","t","p","s",":","/","/","t","e","s","t",".",
                    "e","x","a","m","p","l","e",".","c","o","m">>,
     timeout |-> 10, max_retries |-> 3, retry_delay |-> 1,
     log_level |-> <<"D","E","B","U","G">>]

----------------------------------------------------------------------------
(* Actions *)

\* VaultsClient.__init__ with a function key among keys
ClientInit(keys) ==
    /\ pc = [c \in Calls |-> "idle"]
    /\ req = [c \in Calls |-> NoReq]
    /\ backend = [c \in Calls |-> [prefix |-> <<>>, tail |-> TransportOther]]
    /\ attempts = [c \in Calls |-> 0]
    /\ outcomes = [c \in Calls |-> <<>>]
    /\ delays = [c \in Calls |-> <<>>]
    /\ result = [c \in Calls |-> NoOutcome]
    /\ function_key \in keys
    /\ transport = "open"
    /\ sent = [c \in Calls |-> <<>>]
    /\ scope = NoScope
    /\ tool = [c \in Calls |-> NoTool]
    /\ settings = FixtureSettings
    /\ config = ConfigInit(FixtureSettings).value
    /\ server = "running"
    /\ closes = 0
    /\ listing = <<>>

Init == ClientInit({Some(TestKey)})

\* a retrying loop that gives up at once unless the method is GET
SettleGetOnly(c, o, n) ==
    LET a == AfterAttempt(o, n)
        d == IF a.next = "sleeping" /\ req[c].method # "GET"
             THEN [next |-> "done", result |-> o] ELSE a
    IN  /\ outcomes' = [outcomes EXCEPT ![c] = Append(@, o)]
        /\ pc' = [pc EXCEPT ![c] = d.next]
        /\ result' = [result EXCEPT ![c] = d.result]
        /\ delays' = [delays EXCEPT ![c] =
                        IF d.next = "sleeping" THEN Append(@, WaitExponential(n)) ELSE @]

\* the retrying loop takes the outcome o of attempt number n of call c
Settle(c, o, n) ==
    LET d == AfterAttempt(o, n)
    IN  /\ outcomes' = [outcomes EXCEPT ![c] = Append(@, o)]
        /\ pc' = [pc EXCEPT ![c] = d.next]
        /\ result' = [result EXCEPT ![c] = d.result]
        /\ delays' = [delays EXCEPT ![c] =
                        IF d.next = "sleeping" THEN Append(@, WaitExponential(n)) ELSE @]

\* an attempt counted against every call of the client
IssueAttemptSharedBudget(c, r) ==
    IF TransportAccepts(transport)
    THEN /\ sent' = [sent EXCEPT ![c] = Append(@, Outbound(r, function_key))]
         /\ attempts' = [d \in Calls |-> attempts[d] + 1]
         /\ pc' = [pc EXCEPT ![c] = "inflight"]
         /\ UNCHANGED <<outcomes, delays, result>>
    ELSE /\ Settle(c, MakeRequest(TransportClosed), Len(outcomes[c]) + 1)
         /\ UNCHANGED <<sent, attempts>>

\* _make_request runs up to "await self.client.request(...)": the request goes
\* out, or the closed client refuses it and the attempt fails at once
IssueAttempt(c, r) ==
    IF TransportAccepts(transport)
    THEN /\ sent' = [sent EXCEPT ![c] = Append(@, Outbound(r, function_key))]
         /\ attempts' = [attempts EXCEPT ![c] = @ + 1]
         /\ pc' = [pc EXCEPT ![c] = "inflight"]
         /\ UNCHANGED <<outcomes, delays, result>>
    ELSE /\ Settle(c, MakeRequest(TransportClosed), Len(outcomes[c]) + 1)
         /\ UNCHANGED <<sent, attempts>>

\* get / post / put / delete: enter _make_request and issue the first attempt
Request(c, behaviours, requests) ==
    /\ pc[c] = "idle"
    /\ \E r \in requests, b \in behaviours :
        /\ req' = [req EXCEPT ![c] = r]
        /\ backend' = [backend EXCEPT ![c] = b]
        /\ IssueAttempt(c, r)
    /\ UNCHANGED <<function_key, transport, scope, hostVars>>

\* what an attempt in flight can end in: the backend's answer, or a
\* connectivity failure when the client was closed under it
InFlightEvents(c) ==
    {Answer(backend[c], attempts[c])}
        \cup (IF transport = "closed" THEN {TransportNetwork} ELSE {})

\* the awaited client.request() finishes: classify, then return, raise or back off
Complete(c) ==
    /\ pc[c] = "inflight"
    /\ \E e \in InFlightEvents(c) : Settle(c, MakeRequest(e), attempts[c])
    /\ UNCHANGED <<req, backend, attempts, sent, function_key, transport, scope, hostVars>>

\* the backoff sleep is over: issue the next attempt
Retry(c) ==
    /\ pc[c] = "sleeping"
    /\ IssueAttempt(c, req[c])
    /\ UNCHANGED <<req, backend, function_key, transport, scope, hostVars>>

\* one request() call on the client
Next ==
    \/ Request(1, Behaviours, PlainRequests) /\ UNCHANGED tool
    \/ Complete(1) /\ UNCHANGED tool
    \/ Retry(1) /\ UNCHANGED tool

Spec == Init /\ [][Next]_vars

----------------------------------------------------------------------------
(* One request() call of any shape, on a client with any key *)

FunctionKeys == {None, Some(""), Some(TestKey)}

QueueParams == {<<"queue", "invite-queue">>}
TenantBody == JsonValue("object", {<<"tenantId", "t1">>})

ParamsArgs == {None, Some(QueueParams)}
JsonArgs == {None, Some(TenantBody)}
AdminPath == "/api/admin/servicebus/metrics"
Paths == {HealthPath, AdminPath}

WireRequests ==
    {Get(p, q, a) : p \in Paths, q \in ParamsArgs, a \in BOOLEAN}
    \cup {Delete(p, q, a) : p \in Paths, q \in ParamsArgs, a \in BOOLEAN}
    \cup {Post(p, j, q, a) : p \in Paths, j \in JsonArgs, q \in ParamsArgs, a \in BOOLEAN}
    \cup {Put(p, j, q, a) : p \in Paths, j \in JsonArgs, q \in ParamsArgs, a \in BOOLEAN}

OkResponse == Event("response", 200, JsonType, OkBody, None)

WireBehaviours ==
    [prefix : {<<>>, <<TransportTimeout>>, <<TransportTimeout, TransportNetwork>>,
               <<TransportNetwork, TransportNetwork, TransportTimeout, TransportTimeout>>},
     tail : {OkResponse, TransportTimeout, Event("response", 401, JsonType, ErrorBody, None)}]

InitWire == ClientInit(FunctionKeys)

NextWire ==
    \/ Request(1, WireBehaviours, WireRequests) /\ UNCHANGED tool
    \/ Complete(1) /\ UNCHANGED tool
    \/ Retry(1) /\ UNCHANGED tool

SpecWire == InitWire /\ [][NextWire]_vars

----------------------------------------------------------------------------
(* One handle_call_tool invocation *)

ToolNames == KnownTools \cup {"no_such_tool"}

ArgBags ==
    SUBSET {<<"tenant_id", "t1">>, <<"queue", "q1">>,
            <<"webhook_url", "https://hook">>, <<"query", "budget">>}

ToolBehaviours ==
    [prefix : {<<>>, <<TransportTimeout>>},
     tail : {OkResponse, Event("response", 200, JsonType, ArrayBody, None),
             Event("response", 200, HtmlType, HtmlBody, None),
             Event("response", 401, JsonType, ErrorBody, None),
             TransportTimeout, TransportOther}]

\* handle_call_tool up to the first await of the handler it dispatches to
CallTool(c) ==
    /\ tool[c].pc = "idle" /\ pc[c] = "idle"
    /\ \E name \in ToolNames, args \in ArgBags :
        LET plan == Dispatch(name, args)
        IN  IF plan.kind = "call"
            THEN /\ Request(c, ToolBehaviours, {plan.request})
                 /\ tool' = [tool EXCEPT ![c] =
                        [pc |-> "awaiting", name |-> name, args |-> args,
                         prefix |-> plan.prefix, output |-> ToolNone, failure |-> NoExc,
                         calls |-> 1, branch |-> BranchOf(name)]]
            ELSE /\ tool' = [tool EXCEPT ![c] =
                        [pc |-> "done", name |-> name, args |-> args,
                         prefix |-> plan.prefix, output |-> Finish(plan), failure |-> plan.exc,
                         calls |-> 0, branch |-> BranchOf(name)]]
                 /\ UNCHANGED <<callVars, function_key, transport, scope, hostVars>>

\* the awaited client call is over: the handler formats the value or catches the error
ToolReturn(c) ==
    /\ tool[c].pc = "awaiting" /\ pc[c] = "done"
    /\ LET plan == IF result[c].tag = "raise"
                   THEN PlanCaught(result[c].exc, tool[c].prefix)
                   ELSE LET f == FormatResult(tool[c].name, result[c].value)
                        IN  IF f.kind = "caught" THEN PlanCaught(f.exc, tool[c].prefix) ELSE f
       IN  tool' = [tool EXCEPT ![c] = [@ EXCEPT !.pc = "done", !.output = Finish(plan),
                                                 !.failure = plan.exc]]
    /\ UNCHANGED <<callVars, function_key, transport, scope, hostVars>>

NextTools ==
    \/ CallTool(1)
    \/ Complete(1) /\ UNCHANGED tool
    \/ Retry(1) /\ UNCHANGED tool
    \/ ToolReturn(1)

SpecTools == Init /\ [][NextTools]_vars

----------------------------------------------------------------------------
(* Concurrent request() calls on one client that is closed at some point,    *)
(* by close() or by the exit of an "async with" block                        *)

LifeBehaviours == [prefix : {<<>>, <<TransportTimeout>>}, tail : {OkResponse, TransportTimeout}]

LifeRequests == {Get(HealthPath, None, FALSE)}

\* the exceptions a block can end with; None is the normal exit
BlockExits == {None, Some("ValueError")}

\* async with client: __aenter__
Enter ==
    /\ scope.pc = "outside"
    /\ scope' = [scope EXCEPT !.pc = "inside"]
    /\ UNCHANGED <<callVars, function_key, transport, tool, hostVars>>

\* the block ends, normally or by an exception: __aexit__ runs
ExitScope ==
    /\ scope.pc = "inside"
    /\ \E exc_type \in BlockExits :
        /\ transport' = AExit(exc_type, transport)
        /\ scope' = [pc |-> "exited", exc |-> exc_type]
    /\ closes' = closes + 1
    /\ UNCHANGED <<callVars, function_key, tool, settings, config, server, listing>>

\* an explicit close()
Close ==
    /\ transport = "open"
    /\ transport' = CloseTransport(transport)
    /\ closes' = closes + 1
    /\ UNCHANGED <<callVars, function_key, scope, tool, settings, config, server, listing>>

NextLife ==
    \/ \E c \in Calls : Request(c, LifeBehaviours, LifeRequests) /\ UNCHANGED tool
    \/ \E c \in Calls : Complete(c) /\ UNCHANGED tool
    \/ \E c \in Calls : Retry(c) /\ UNCHANGED tool
    \/ Enter
    \/ ExitScope
    \/ Close

SpecLife == Init /\ [][NextLife]_vars

----------------------------------------------------------------------------
(* A protocol client that lists the tools and calls them *)

ListTools ==
    /\ listing' = handle_list_tools
    /\ UNCHANGED <<callVars, function_key, transport, scope, tool,
                   settings, config, server, closes>>

NextCatalog ==
    \/ ListTools
    \/ CallTool(1)
    \/ Complete(1) /\ UNCHANGED tool
    \/ Retry(1) /\ UNCHANGED tool
    \/ ToolReturn(1)

SpecCatalog == Init /\ [][NextCatalog]_vars

----------------------------------------------------------------------------
(* Concurrent request() calls on the one shared client *)

PairBehaviours ==
    [prefix : {<<>>, <<TransportTimeout>>,
               <<TransportTimeout, TransportNetwork, TransportTimeout, TransportTimeout>>},
     tail : {OkResponse, TransportTimeout, Event("response", 401, JsonType, ErrorBody, None)}]

NextPair ==
    \/ \E c \in Calls : Request(c, PairBehaviours, LifeRequests) /\ UNCHANGED tool
    \/ \E c \in Calls : Complete(c) /\ UNCHANGED tool
    \/ \E c \in Calls : Retry(c) /\ UNCHANGED tool

SpecPair == Init /\ [][NextPair]_vars

----------------------------------------------------------------------------
(* The server process: import of server.py, service, end of main() *)

BaseUrls ==
    {<<"h","t","t","p","s",":","/","/","a","/">>, <<"h","t","t","p",":","/","/","a">>,
     <<"f","t","p",":","/","/","a">>, <<>>}

LogLevels == {<<"I","N","F","O">>, <<"d","e","b","u","g">>, <<"T","R","A","C","E">>, <<>>}

SettingsSpace ==
    [base_url : BaseUrls, timeout : {0 - 1, 0, 10}, max_retries : {0 - 1, 0, 3, 5},
     retry_delay : {0 - 1, 0, 2}, log_level : LogLevels]

\* the interpreter starts importing server.py
InitServer ==
    /\ pc = [c \in Calls |-> "idle"]
    /\ req = [c \in Calls |-> NoReq]
    /\ backend = [c \in Calls |-> [prefix |-> <<>>, tail |-> TransportOther]]
    /\ attempts = [c \in Calls |-> 0]
    /\ outcomes = [c \in Calls |-> <<>>]
    /\ delays = [c \in Calls |-> <<>>]
    /\ result = [c \in Calls |-> NoOutcome]
    /\ function_key = Some(TestKey)
    /\ transport = "unbuilt"
    /\ sent = [c \in Calls |-> <<>>]
    /\ scope = NoScope
    /\ tool = [c \in Calls |-> NoTool]
    /\ settings \in SettingsSpace
    /\ config = NoConfig
    /\ server = "import"
    /\ closes = 0
    /\ listing = <<>>

\* config = get_config(); client = VaultsClient(config)
Import ==
    /\ server = "import"
    /\ LET made == ConfigInit(settings)
       IN  IF made.ok
           THEN /\ config' = made.value
                /\ transport' = "open"
                /\ server' = "running"
           ELSE /\ server' = "failed"
                /\ UNCHANGED <<config, transport>>
    /\ UNCHANGED <<callVars, function_key, scope, tool, settings, closes, listing>>

\* main(): server.run returns, the stdio context is left, asyncio.run ends
MainReturns ==
    /\ server = "running"
    /\ server' = "stopped"
    /\ UNCHANGED <<callVars, function_key, transport, scope, tool, settings, config, closes, listing>>

NextServer ==
    \/ Import
    \/ server = "running" /\ Request(1, WireBehaviours, PlainRequests) /\ UNCHANGED tool
    \/ server = "running" /\ Complete(1) /\ UNCHANGED tool
    \/ server = "running" /\ Retry(1) /\ UNCHANGED tool
    \/ MainReturns

SpecServer == InitServer /\ [][NextServer]_vars

----------------------------------------------------------------------------
(* Vocabulary of the properties *)

Done(c) == pc[c] = "done"

\* the backend answers attempt i of call c with an HTTP response of status s
AnswersStatus(c, i, s) ==
    LET e == Answer(backend[c], i) IN e.type = "response" /\ e.status = s

\* the backend answers attempts 1..n of call c with the transport failure type ty
AllFail(c, n, ty) == \A i \in 1..n : Answer(backend[c], i).type = ty

\* the classification of the last finished attempt of call c
LastOutcome(c) == outcomes[c][Len(outcomes[c])]

Failed(c) == result[c].tag = "raise"

----------------------------------------------------------------------------
(* Properties of the retry loop *)

\* C1: for every status s in 500..599, a call whose every attempt the
\* backend answers with s ends, failed, after exactly 5 HTTP attempts.
C1_ServerErrorFiveAttempts ==
    \A c \in Calls : \A s \in 500..599 :
        (Done(c) /\ \A i \in 1..MaxAttempts : AnswersStatus(c, i, s))
            => (attempts[c] = MaxAttempts /\ Failed(c))

\* C2: for every k in 1..4, a call whose first k attempts are answered with a
\* 5xx status and whose attempt k+1 is answered 200 with a JSON body v
\* returns v after exactly k+1 attempts.
C2_RecoversAfterServerErrors ==
    \A c \in Calls : \A k \in 1..(MaxAttempts - 1) :
        LET e == Answer(backend[c], k + 1)
        IN  ( /\ Done(c)
              /\ \A i \in 1..k : \E s \in 500..599 : AnswersStatus(c, i, s)
              /\ e.type = "response" /\ e.status = 200
              /\ e.ctype = JsonType /\ ParseJson(e.body).ok )
            => ( /\ result[c] = Return(ParseJson(e.body).value)
                 /\ attempts[c] = k + 1 )

\* C3: a call whose every attempt ends in a transport timeout (resp. in a
\* connectivity failure) has each attempt classified Timeout (resp. Network)
\* and fails after exactly 5 HTTP attempts.
C3_TransportFailuresFiveAttempts ==
    \A c \in Calls :
        /\ (Done(c) /\ AllFail(c, MaxAttempts, "timeout"))
            => /\ attempts[c] = MaxAttempts /\ Failed(c)
               /\ Len(outcomes[c]) = MaxAttempts
               /\ \A i \in 1..MaxAttempts : outcomes[c][i].exc.cls = "TimeoutError"
        /\ (Done(c) /\ AllFail(c, MaxAttempts, "network"))
            => /\ attempts[c] = MaxAttempts /\ Failed(c)
               /\ Len(outcomes[c]) = MaxAttempts
               /\ \A i \in 1..MaxAttempts : outcomes[c][i].exc.cls = "NetworkError"
        /\ \A i \in 1..Len(outcomes[c]) :
              LET ty == Answer(backend[c], i).type
              IN  /\ ty = "timeout" => outcomes[c][i].exc.cls = "TimeoutError"
                  /\ ty = "network" => outcomes[c][i].exc.cls = "NetworkError"

C3_Witness ==
    \E c \in Calls :
        /\ Done(c) /\ AllFail(c, MaxAttempts, "timeout")
        /\ attempts[c] = MaxAttempts /\ Failed(c)

\* C4: every completed call ends in a parsed JSON value or in a failure of
\* one of the six classified kinds; no other exception leaves the client.
C4_OnlyClassifiedFailures ==
    \A c \in Calls :
        Done(c) => \/ result[c].tag = "return"
                   \/ Failed(c) /\ result[c].exc.cls \in ClassifiedKinds

\* C5: when all attempts of a call fail with retryable failures, the error
\* delivered to the caller is the classified error of the last attempt.
C5_LastErrorSurfaces ==
    \A c \in Calls :
        ( /\ Done(c) /\ Len(outcomes[c]) = MaxAttempts
          /\ \A i \in 1..MaxAttempts :
                outcomes[c][i].tag = "raise" /\ RetryIf(outcomes[c][i].exc) )
        => result[c] = LastOutcome(c)

\* C6: a call whose first attempt is answered 401 makes exactly one HTTP
\* attempt and fails with an Authentication error.
C6_UnauthorizedNoRetry ==
    \A c \in Calls :
        (Done(c) /\ AnswersStatus(c, 1, 401))
            => /\ attempts[c] = 1
               /\ Failed(c) /\ result[c].exc.cls = "AuthenticationError"

\* C7: a call whose first attempt is answered 429 with Retry-After: n makes
\* exactly one HTTP attempt and fails with a RateLimit error carrying n.
C7_RateLimitCarriesRetryAfter ==
    \A c \in Calls : \A n \in 0..MaxRetryAfter :
        ( /\ Done(c) /\ AnswersStatus(c, 1, 429)
          /\ Answer(backend[c], 1).retry_after = Some(ToString(n)) )
        => /\ attempts[c] = 1
           /\ Failed(c) /\ result[c].exc.cls = "RateLimitError"
           /\ result[c].exc.retry_after = Some(n)

\* C8: a call whose first attempt is answered with a status s in 400..499
\* other than 401 and 429 makes exactly one HTTP attempt and fails with a
\* GenericAPI error whose status code is s.
C8_ClientErrorCarriesStatus ==
    \A c \in Calls : \A s \in (400..499) \ {401, 429} :
        (Done(c) /\ AnswersStatus(c, 1, s))
            => /\ attempts[c] = 1
               /\ Failed(c) /\ result[c].exc.cls = "APIError"
               /\ result[c].exc.status_code = Some(s)

\* C9: an attempt after the first is issued only when the attempt before it
\* ended in a Network, Server or Timeout failure; once an attempt has
\* returned or failed with another kind, no further attempt is issued.
C9_RetryOnlyTransient ==
    [][\A c \in Calls :
        /\ (attempts[c] >= 1 /\ attempts'[c] # attempts[c])
            => /\ attempts'[c] = attempts[c] + 1
               /\ Len(outcomes[c]) = attempts[c]
               /\ LastOutcome(c).tag = "raise"
               /\ LastOutcome(c).exc.cls \in {"NetworkError", "ServerError", "TimeoutError"}
        /\ ( /\ Len(outcomes[c]) >= 1
             /\ \/ LastOutcome(c).tag = "return"
                \/ LastOutcome(c).exc.cls \in {"AuthenticationError", "RateLimitError", "APIError"} )
            => attempts'[c] = attempts[c] /\ outcomes'[c] = outcomes[c]
      ]_vars

C9_Witness ==
    \E c \in Calls :
        /\ Done(c) /\ attempts[c] = 3
        /\ outcomes[c][1].exc.cls = "NetworkError"
        /\ outcomes[c][2].exc.cls = "TimeoutError"
        /\ outcomes[c][3].exc.cls = "APIError"

\* C10: no call ever has more than 5 HTTP attempts issued.
C10_AtMostFiveAttempts ==
    \A c \in Calls : attempts[c] <= MaxAttempts

C10_Witness ==
    \E c \in Calls : attempts[c] = MaxAttempts /\ pc[c] = "inflight"

----------------------------------------------------------------------------
(* Properties of the backoff and of the success path *)

\* the backend answers attempt i of call c with a success status
AnswersSuccess(c, i) ==
    LET e == Answer(backend[c], i) IN e.type = "response" /\ IsSuccess(e)

\* C11: the delay slept between attempt k and attempt k+1 is min(10, 2^(k-1)),
\* that is 1, 2, 4, 8 for k = 1..4: it starts at 1, doubles, stays at most 10
\* and increases strictly.
C11_BackoffDelays ==
    \A c \in Calls :
        /\ Len(delays[c]) <= 4
        /\ delays[c] = SubSeq(<<1, 2, 4, 8>>, 1, Len(delays[c]))
        /\ \A k \in 1..Len(delays[c]) :
              /\ delays[c][k] = Min(10, Pow2(k - 1))
              /\ delays[c][k] <= 10
              /\ k > 1 => delays[c][k] = 2 * delays[c][k - 1] /\ delays[c][k] > delays[c][k - 1]
        /\ pc[c] = "sleeping" => Len(delays[c]) = attempts[c]
        /\ pc[c] \in {"inflight", "done"} => Len(delays[c]) = attempts[c] - 1

C11_Witness ==
    \E c \in Calls : Done(c) /\ attempts[c] = MaxAttempts /\ delays[c] = <<1, 2, 4, 8>>

\* C12: an attempt answered with a success status, a non-empty body and a
\* content type containing text/html fails with a Server error, and the error
\* that reaches the caller is Server-classified.
C12_HtmlSuccessIsServerError ==
    \A c \in Calls : \A i \in 1..Len(outcomes[c]) :
        LET e == Answer(backend[c], i)
        IN  (AnswersSuccess(c, i) /\ e.body # "" /\ e.ctype = HtmlType)
            => /\ outcomes[c][i].tag = "raise"
               /\ outcomes[c][i].exc.cls = "ServerError"
               /\ (Done(c) /\ i = Len(outcomes[c]))
                    => Failed(c) /\ result[c].exc.cls = "ServerError"

\* C13: an attempt answered with a success status and an empty body makes
\* request() return the empty mapping, without error and without a further
\* attempt, whatever the content type of the response.
C13_EmptyBodyIsEmptyMapping ==
    \A c \in Calls : \A i \in 1..Len(outcomes[c]) :
        (AnswersSuccess(c, i) /\ Answer(backend[c], i).body = "")
            => /\ outcomes[c][i] = Return(EmptyMapping)
               /\ Done(c) /\ result[c] = Return(EmptyMapping)
               /\ i = Len(outcomes[c]) /\ attempts[c] = i

C13_Witness ==
    \E c \in Calls :
        /\ Done(c) /\ attempts[c] = 2
        /\ AnswersSuccess(c, 2)
        /\ Answer(backend[c], 2).body = "" /\ Answer(backend[c], 2).ctype = HtmlType
        /\ result[c] = Return(EmptyMapping)

\* C14: an attempt answered with a success status and a non-empty, non-HTML
\* body that is not valid JSON makes the call fail, without retry, with a
\* GenericAPI error whose message includes the text of the parse exception
\* and which carries the HTTP status code of the response.
C14_ParseFailureCarriesStatus ==
    \A c \in Calls : \A i \in 1..Len(outcomes[c]) :
        LET e == Answer(backend[c], i)
            text == "Failed to parse JSON response (HTTP " \o ToString(e.status) \o "): "
                        \o ParseJson(e.body).err
        IN  ( /\ AnswersSuccess(c, i) /\ e.body # ""
              /\ ~ContainsTextHtml(Lower(e.ctype)) /\ ~ParseJson(e.body).ok )
            => /\ Done(c) /\ i = Len(outcomes[c]) /\ attempts[c] = i
               /\ Failed(c) /\ result[c].exc.cls = "APIError"
               /\ result[c].exc.message \in {text, "Unexpected error: " \o text}
               /\ result[c].exc.status_code = Some(e.status)

----------------------------------------------------------------------------
(* Properties of the outbound request *)

\* a function key is configured: Config.function_key holds a non-empty key
KeyConfigured == function_key # None /\ function_key[1] # ""

KeyHeaders(out) == {h \in out.headers : h[1] = "x-functions-key"}

\* C15: on every outbound attempt the x-functions-key header is present
\* exactly when the call requires authentication and a key is configured,
\* and then its value is the configured key; a call that requires
\* authentication on a client without key is sent all the same.
C15_FunctionKeyHeader ==
    \A c \in Calls :
        /\ \A i \in 1..Len(sent[c]) :
              /\ KeyHeaders(sent[c][i]) # {} <=> (req[c].requires_auth /\ KeyConfigured)
              /\ KeyHeaders(sent[c][i]) # {}
                    => KeyHeaders(sent[c][i]) = {<<"x-functions-key", function_key[1]>>}
              /\ ~req[c].requires_auth => KeyHeaders(sent[c][i]) = {}
        /\ pc[c] # "idle" => Len(sent[c]) = attempts[c] /\ Len(sent[c]) >= 1
        /\ (Done(c) /\ req[c].requires_auth /\ ~KeyConfigured /\ Answer(backend[c], 1) = OkResponse)
              => result[c].tag = "return"

C15_Witness ==
    \E c \in Calls :
        /\ req[c].requires_auth /\ function_key = Some(TestKey)
        /\ Len(sent[c]) = 2
        /\ \A i \in 1..2 : <<"x-functions-key", TestKey>> \in sent[c][i].headers

\* C16: for a POST with body b the payload handed to the transport is b, and
\* every attempt of a call carries the method, path, query parameters and
\* body of its first attempt.
C16_SameRequestEveryAttempt ==
    \A c \in Calls : \A i \in 1..Len(sent[c]) :
        /\ req[c].method = "POST" => sent[c][i].json = req[c].json_data
        /\ sent[c][i].method = req[c].method /\ sent[c][i].url = req[c].path
        /\ sent[c][i].params = req[c].params
        /\ sent[c][i].method = sent[c][1].method /\ sent[c][i].url = sent[c][1].url
        /\ sent[c][i].params = sent[c][1].params /\ sent[c][i].json = sent[c][1].json

C16_Witness ==
    \E c \in Calls :
        /\ req[c].method = "POST" /\ req[c].json_data = Some(TenantBody)
        /\ Len(sent[c]) = 3
        /\ \A i \in 1..3 : sent[c][i].json = Some(TenantBody)

----------------------------------------------------------------------------
(* Properties of the tool dispatcher *)

ToolDone(c) == tool[c].pc = "done"

\* the texts the except clauses put before the message of the failure
ErrorPrefixes ==
    {"Error: ", "Health check failed: ", "Queue metrics failed: ", "Get audit policies failed: ",
     "Copilot retrieve content failed: ", "Error subscribing to Purview audit logs: ",
     "Error retrieving DLP policies: "}

\* C17: for every tool name, every argument bag and every outcome of the
\* client, handle_call_tool ends by returning text content; no exception
\* leaves it, and every failure yields a text that contains its message.
C17_ToolCallAlwaysReturnsText ==
    \A c \in Calls :
        /\ tool[c].output.tag # "raise"
        /\ ToolDone(c) =>
              /\ tool[c].output.tag = "text"
              /\ (Done(c) /\ Failed(c)) => tool[c].failure = result[c].exc
              /\ (tool[c].name \notin KnownTools) => tool[c].failure.cls = "ValueError"
              /\ tool[c].failure # NoExc =>
                    \E p \in ErrorPrefixes : tool[c].output.text = p \o tool[c].failure.message

C17_Witness ==
    \E c \in Calls :
        /\ ToolDone(c) /\ Done(c) /\ result[c].exc.cls = "tenacity.RetryError"
        /\ tool[c].output.tag = "text"
        /\ tool[c].output.text = tool[c].prefix \o result[c].exc.message

\* C18: an invocation with a name outside the dispatch table issues no client
\* call and returns one text that reports the unknown name.
C18_UnknownToolIsReported ==
    \A c \in Calls :
        (tool[c].pc # "idle" /\ tool[c].name \notin KnownTools)
            => /\ ToolDone(c)
               /\ pc[c] = "idle" /\ attempts[c] = 0 /\ sent[c] = <<>>
               /\ tool[c].output = ToolText("Error: Unknown tool: " \o tool[c].name)

C18_Witness ==
    \E c \in Calls :
        /\ ToolDone(c) /\ tool[c].name = "no_such_tool"
        /\ tool[c].output = ToolText("Error: Unknown tool: no_such_tool")

----------------------------------------------------------------------------
(* Properties of the life cycle of the transport *)

\* C19: when the client is used through "async with", the transport is
\* released on exit in every case: after a normal exit of the block and
\* after an exit by an exception, close() has run when the scope is left.
C19_ScopeExitCloses ==
    scope.pc = "exited" => transport = "closed"

C19_Witness ==
    scope.pc = "exited" /\ scope.exc = Some("ValueError") /\ transport = "closed"

ClosedClientMessage == "Unexpected error: Cannot send a request, as the client has been closed."

\* C20: the client keeps its one transport, which once closed stays closed,
\* and after close() no HTTP attempt is issued over it, whatever the calls
\* are doing when close() runs (idle, in flight, or sleeping between retries).
C20_NoAttemptAfterClose ==
    [][transport = "closed" =>
            /\ transport' = "closed"
            /\ \A c \in Calls : sent'[c] = sent[c] /\ attempts'[c] = attempts[c]
      ]_vars

C20_Witness ==
    \E c \in Calls :
        /\ transport = "closed" /\ Done(c)
        /\ attempts[c] = 2 /\ Len(sent[c]) = 2 /\ Len(outcomes[c]) = 3
        /\ result[c].exc.message = ClosedClientMessage

----------------------------------------------------------------------------
(* Properties of the server process and of its configuration *)

\* C21: over the life of the server process the transport of the shared
\* client is torn down exactly once: when main() has ended, close() has
\* been executed on the global client once, and never more than once.
C21_ClosedOnceAtShutdown ==
    /\ closes <= 1
    /\ server = "stopped" => (closes = 1 /\ transport = "closed")

\* s is t in some mix of upper and lower case
SameIgnoringCase(s, t) ==
    /\ Len(s) = Len(t)
    /\ \A i \in 1..Len(s) :
          \/ s[i] = t[i]
          \/ \E k \in 1..Len(LowerLetters) :
                {s[i], t[i]} = {LowerLetters[k], UpperLetters[k]}

SettingsAcceptable(s) ==
    /\ \E rest \in {SubSeq(s.base_url, k, Len(s.base_url)) : k \in 1..(Len(s.base_url) + 1)} :
          s.base_url \in {HttpScheme \o rest, HttpsScheme \o rest}
    /\ s.timeout > 0
    /\ s.max_retries >= 0
    /\ s.retry_delay >= 0
    /\ \E level \in valid_levels : SameIgnoringCase(s.log_level, level)

\* C22: constructing the configuration succeeds exactly when base_url starts
\* with http:// or https://, timeout > 0, max_retries >= 0, retry_delay >= 0
\* and log_level is one of the five levels in any case; otherwise it fails
\* and no client is built.
C22_ConfigValidation ==
    /\ server # "import" => (server # "failed" <=> SettingsAcceptable(settings))
    /\ server = "failed" =>
          /\ config = NoConfig /\ transport = "unbuilt"
          /\ \A c \in Calls : attempts[c] = 0
    /\ server \in {"running", "stopped"} =>
          /\ config # NoConfig /\ transport # "unbuilt"
          /\ config.timeout = settings.timeout
          /\ config.log_level \in valid_levels

C22_Witness ==
    /\ server = "failed" /\ settings.timeout = 0
    /\ SettingsAcceptable([settings EXCEPT !.timeout = 10])

----------------------------------------------------------------------------
(* Properties of the handlers *)

\* C23: get_queue_metrics issues exactly one client GET to
\* /api/admin/servicebus/metrics with requires_auth true and the query
\* parameter queue, which is the caller's queue argument when given and
\* "invite-queue" when absent.
C23_QueueMetricsRequest ==
    \A c \in Calls :
        (tool[c].pc # "idle" /\ tool[c].name = "get_queue_metrics") =>
            /\ tool[c].calls = 1 /\ pc[c] # "idle"
            /\ req[c].method = "GET" /\ req[c].path = "/api/admin/servicebus/metrics"
            /\ req[c].requires_auth
            /\ \E q \in {"invite-queue"} \cup {a[2] : a \in tool[c].args} :
                  /\ req[c].params = Some({<<"queue", q>>})
                  /\ <<"queue", q>> \in tool[c].args
                        \/ (q = "invite-queue" /\ \A a \in tool[c].args : a[1] # "queue")
            /\ \A i \in 1..Len(sent[c]) :
                  sent[c][i].method = "GET" /\ sent[c][i].params = req[c].params

C23_Witness ==
    \E c \in Calls :
        /\ ToolDone(c) /\ tool[c].name = "get_queue_metrics"
        /\ <<"queue", "q1">> \in tool[c].args
        /\ Len(sent[c]) >= 1 /\ sent[c][1].params = Some({<<"queue", "q1">>})

\* the arguments the catalog marks as required
Required(name) ==
    CASE name = "get_audit_policies" -> {"tenant_id"}
      [] name = "copilot_retrieve_content" -> {"query"}
      [] name = "subscribe_purview_audit_logs" -> {"webhook_url"}
      [] OTHER -> {}

\* C24: every tool of the dispatch table, invoked with all its required
\* arguments, issues exactly one call into the client before it produces its
\* result (retries inside the client not counted).
C24_OneClientCallPerTool ==
    \A c \in Calls :
        (ToolDone(c) /\ tool[c].branch # 0
            /\ \A k \in Required(tool[c].name) : HasArg(tool[c].args, k))
        => tool[c].calls = 1

----------------------------------------------------------------------------
(* Properties of concurrent calls and of the retry settings *)

\* a call run on its own against the answers b, from attempt number n on
RECURSIVE RunAlone(_, _)
RunAlone(b, n) ==
    LET d == AfterAttempt(MakeRequest(Answer(b, n)), n)
    IN  IF d.next = "done"
        THEN [attempts |-> n, delays |-> <<>>, result |-> d.result]
        ELSE LET rest == RunAlone(b, n + 1)
             IN  [attempts |-> rest.attempts,
                  delays |-> <<WaitExponential(n)>> \o rest.delays,
                  result |-> rest.result]

\* C25: concurrent request() calls on the shared client are independent:
\* in every interleaving the attempt count, the delays and the outcome of a
\* call are those of the call run alone against the answers to its own
\* attempts, and no call's failures use up another call's five attempts.
C25_ConcurrentCallsIndependent ==
    \A c \in Calls :
        /\ attempts[c] <= MaxAttempts
        /\ pc[c] # "idle" => Len(outcomes[c]) \in {attempts[c] - 1, attempts[c]}
        /\ Done(c) =>
              /\ attempts[c] = RunAlone(backend[c], 1).attempts
              /\ delays[c] = RunAlone(backend[c], 1).delays
              /\ result[c] = RunAlone(backend[c], 1).result

C25_Witness ==
    \E c \in Calls, d \in Calls :
        /\ Done(c) /\ attempts[c] = MaxAttempts /\ result[c].exc.cls = "tenacity.RetryError"
        /\ pc[d] = "sleeping" /\ attempts[d] = 1 /\ Answer(backend[d], 2) = OkResponse

\* the delays tenacity sleeps before attempts 2, 3, 4 and 5
FixedDelays == <<1, 2, 4, 8>>

\* C26: the number of attempts and the delays of a request() call do not
\* depend on the configured max_retries and retry_delay: whatever these
\* settings are, the call goes on until an attempt ends in something other
\* than a retried failure or five attempts are made, with the delays 1, 2, 4, 8.
C26_RetrySettingsIgnored ==
    \A c \in Calls :
        Done(c) =>
            /\ attempts[c] = Len(outcomes[c]) /\ attempts[c] <= MaxAttempts
            /\ \A i \in 1..attempts[c] : outcomes[c][i] = MakeRequest(Answer(backend[c], i))
            /\ \A i \in 1..(attempts[c] - 1) :
                  outcomes[c][i].tag = "raise" /\ RetryIf(outcomes[c][i].exc)
            /\ attempts[c] < MaxAttempts =>
                  ~(LastOutcome(c).tag = "raise" /\ RetryIf(LastOutcome(c).exc))
            /\ delays[c] = SubSeq(FixedDelays, 1, attempts[c] - 1)

C26_Witness ==
    \E c \in Calls :
        /\ Done(c) /\ config.max_retries = 0 /\ config.retry_delay = 2
        /\ attempts[c] = MaxAttempts /\ delays[c] = FixedDelays

\* every answer to the attempts of call c is a transport failure
AlwaysTransient(c) ==
    \A i \in 1..MaxAttempts : Answer(backend[c], i).type \in {"timeout", "network"}

\* C27: whether an attempt is retried depends on the classification of its
\* failure and not on the HTTP method: a POST, PUT or DELETE whose attempts
\* end in Timeout or Network failures is sent again, up to five times, as a
\* GET is, so one call can emit a non-idempotent request more than once.
C27_RetryWhateverTheMethod ==
    \A c \in Calls :
        /\ \A i \in 1..Len(outcomes[c]) :
              (i < MaxAttempts /\ outcomes[c][i].exc.cls \in {"TimeoutError", "NetworkError"})
                  => \/ pc[c] = "sleeping" /\ Len(outcomes[c]) = i /\ Len(sent[c]) = i
                     \/ Len(sent[c]) >= i + 1 /\ sent[c][i + 1] = sent[c][i]
        /\ (Done(c) /\ AlwaysTransient(c))
              => /\ Len(sent[c]) = MaxAttempts
                 /\ \A i \in 1..MaxAttempts : sent[c][i].method = req[c].method

C27_Witness ==
    \E c \in Calls :
        /\ Done(c) /\ req[c].method = "POST" /\ req[c].json_data = Some(TenantBody)
        /\ Len(sent[c]) = MaxAttempts
        /\ \A i \in 1..MaxAttempts :
              sent[c][i].method = "POST" /\ sent[c][i].json = Some(TenantBody)

----------------------------------------------------------------------------
(* Properties of the classification of responses *)

\* C28: every 429 response is classified RateLimit whatever its Retry-After
\* header holds: without the header the RateLimit error has no retry-after
\* hint, and with a value that is not an integer (an HTTP date) the error is
\* still a RateLimit error.
C28_RateLimitWhateverRetryAfter ==
    \A c \in Calls :
        (Done(c) /\ AnswersStatus(c, 1, 429))
            => /\ Failed(c) /\ result[c].exc.cls = "RateLimitError"
               /\ Answer(backend[c], 1).retry_after = None
                     => result[c].exc.retry_after = None

\* C29: request() returns a value only for a 2xx response; a response with
\* any other status makes the attempt fail with a classified error, and a
\* status outside 400..599 gives a GenericAPI error that carries the status
\* code and is not retried.
C29_OnlySuccessReturns ==
    \A c \in Calls :
        /\ (Done(c) /\ result[c].tag = "return")
              => LET e == Answer(backend[c], attempts[c])
                 IN  e.type = "response" /\ 200 <= e.status /\ e.status <= 299
        /\ \A i \in 1..Len(outcomes[c]) :
              LET e == Answer(backend[c], i)
              IN  (e.type = "response" /\ ~(200 <= e.status /\ e.status <= 299))
                    => /\ outcomes[c][i].tag = "raise"
                       /\ outcomes[c][i].exc.cls \in ClassifiedKinds
                       /\ ~(400 <= e.status /\ e.status <= 599)
                             => /\ outcomes[c][i].exc.cls = "APIError"
                                /\ outcomes[c][i].exc.status_code = Some(e.status)
                                /\ Done(c) /\ Len(outcomes[c]) = i

----------------------------------------------------------------------------
(* Properties of the catalog *)

\* the branches of the chain that compare with name
BranchesNamed(name) == {j \in 1..Len(DispatchBranches) : DispatchBranches[j] = name}

UnknownToolText(name) == ToolText("Error: Unknown tool: " \o name)

\* C30: the advertised catalog and the dispatch table agree: every name that
\* handle_list_tools returns is matched by exactly one branch of
\* handle_call_tool and never ends in the unknown-tool path, every branch
\* name is in the catalog, and no name is in the catalog twice.
C30_CatalogMatchesDispatch ==
    /\ listing # <<>> =>
          /\ \A i \in 1..Len(listing) : Cardinality(BranchesNamed(listing[i])) = 1
          /\ \A j \in 1..Len(DispatchBranches) :
                \E i \in 1..Len(listing) : listing[i] = DispatchBranches[j]
          /\ \A i \in 1..Len(listing), k \in 1..Len(listing) :
                listing[i] = listing[k] => i = k
    /\ \A c \in Calls :
          (tool[c].pc # "idle" /\ \E i \in 1..Len(listing) : listing[i] = tool[c].name)
              => /\ tool[c].branch \in BranchesNamed(tool[c].name)
                 /\ tool[c].output # UnknownToolText(tool[c].name)

C30_Witness ==
    /\ Len(listing) = Len(DispatchBranches) /\ Len(listing) > 1
    /\ \E c \in Calls :
          /\ ToolDone(c) /\ tool[c].name = listing[Len(listing) - 8]
          /\ tool[c].branch = Len(listing) - 8

====
